---- MODULE Spec2Model ----
(***************************************************************************)
(* Model of src/server/boot.rs: the startup sequence of main, the shared   *)
(* WorkflowEngine and the Actix handlers status_check, the workflows       *)
(* closure and webhook_trigger, with any number of requests in flight.     *)
(***************************************************************************)
EXTENDS Integers, Sequences, FiniteSets, TLC

(* ------------------------------ bounds -------------------------------- *)

\* requests the server receives in one behaviour
MaxRequests == 2

\* workflow ids that appear in /webhook/{workflowId}
Workflows == {"wf1", "wf2"}

\* request bodies (web::Bytes), as byte sequences
Bodies == {<<>>, <<7>>}

\* values of the PORT environment variable; "unset" is env::var(..) = Err
EnvPorts == {<<"unset">>, <<"8", "0", "8", "0">>, <<"a", "b", "c">>,
             <<"7", "0", "0", "0", "0">>, <<>>}

\* Uuid::new_v4 draws a version-4 UUID; as usual for random 122-bit values
\* it is taken to be fresh: a value no earlier call returned.
UuidSpace == 1..(MaxRequests + 1)

(* --------------------------- program constants ------------------------ *)

DefaultPort == 5678
U16Max == 65535

(* ------------------------------- state -------------------------------- *)

VARIABLES
    pc,             \* position of main
    cfg,            \* Config, or NoValue before Config::load
    db_service,     \* "none" | "configured" | "connected"
    node_registry,  \* "none" | "registered" (new + register_default_nodes)
    engine,         \* WorkflowEngine, or NoValue before WorkflowEngine::new
    exit_code,      \* "running" | "exit1" (process::exit(1)) | "io_error" (bind failed)
    requests        \* the requests received so far, in arrival order

vars == <<pc, cfg, db_service, node_registry, engine, exit_code, requests>>

NoValue == [none |-> TRUE]

(* --------------------------- Config::load ------------------------------ *)

DigitValue(c) ==
    CASE c = "0" -> 0 [] c = "1" -> 1 [] c = "2" -> 2 [] c = "3" -> 3
      [] c = "4" -> 4 [] c = "5" -> 5 [] c = "6" -> 6 [] c = "7" -> 7
      [] c = "8" -> 8 [] c = "9" -> 9 [] OTHER -> -1

RECURSIVE ParseDigits(_, _)
\* str::parse::<u16> on the digits of s after accumulating acc; -1 is Err
ParseDigits(s, acc) ==
    IF s = <<>> THEN acc
    ELSE LET d == DigitValue(Head(s)) IN
         IF d < 0 THEN -1
         ELSE IF acc * 10 + d > U16Max THEN -1
         ELSE ParseDigits(Tail(s), acc * 10 + d)

parse_u16(s) == IF s = <<>> THEN -1 ELSE ParseDigits(s, 0)

\* env::var("PORT").unwrap_or_else(|_| "5678").parse().unwrap_or(5678)
Config_load(env_port) ==
    LET text == IF env_port = <<"unset">> THEN <<"5", "6", "7", "8">> ELSE env_port
        n == parse_u16(text)
    IN [port |-> IF n < 0 THEN DefaultPort ELSE n]

(* --------------------------- WorkflowEngine ---------------------------- *)

WorkflowEngine_new == [is_running |-> FALSE]

\* a start_worker that leaves the flag alone
start_worker_noop(e) == e

start_worker(e) == [e EXCEPT !.is_running = TRUE]

\* DatabaseService::connect sleeps and returns Ok(())
connect == "Ok"

\* the UUIDs returned by earlier calls of Uuid::new_v4
IssuedUuids(reqs) ==
    {reqs[i].result.uuid : i \in {j \in 1..Len(reqs) : reqs[j].result # NoValue
                                                      /\ reqs[j].result.ok}}

new_v4(reqs) == UuidSpace \ IssuedUuids(reqs)

\* the engine holds no workflow definitions: no workflow id is known to it
KnownWorkflows == {}

\* a trigger_workflow that derives the id from its arguments (deduplication)
trigger_workflow_dedup(id, body, uuid) ==
    [ok |-> TRUE, uuid |-> uuid, value |-> <<"exec-", id, body>>]

\* a trigger_workflow whose run fails
trigger_workflow_err(id, body, uuid) ==
    [ok |-> FALSE, uuid |-> uuid, value |-> "run failed"]

\* trigger_workflow after its sleep: Ok(format!("exec-{}", Uuid::new_v4()))
trigger_workflow(id, body, uuid) ==
    [ok |-> TRUE, uuid |-> uuid, value |-> <<"exec-", uuid>>]

(* ------------------------------ handlers ------------------------------- *)

status_check ==
    [status |-> 200,
     body |-> [status |-> "ok", service |-> "n8n-clone-rust-backend",
               version |-> "0.1.0-bogus"]]

workflows_list == [status |-> 200, body |-> "Workflow list..."]

\* the match of webhook_trigger on the result of trigger_workflow
webhook_response(result) ==
    IF result.ok
    THEN [status |-> 200,
          body |-> [message |-> "Workflow triggered successfully",
                    executionId |-> result.value]]
    ELSE [status |-> 500,
          body |-> [message |-> "Error triggering workflow",
                    error |-> result.value]]

Routes == {"GET /api/v1/status", "GET /api/v1/workflows", "POST /webhook/{workflowId}"}

(* ------------------------------- Init ---------------------------------- *)

Init ==
    /\ pc = "load"
    /\ cfg = NoValue
    /\ db_service = "none"
    /\ node_registry = "none"
    /\ engine = NoValue
    /\ exit_code = "running"
    /\ requests = <<>>

(* ------------------------------- main ---------------------------------- *)

\* 1. Load Configuration
MainLoad ==
    /\ pc = "load"
    /\ \E p \in EnvPorts : cfg' = Config_load(p)
    /\ pc' = "init_services"
    /\ UNCHANGED <<db_service, node_registry, engine, exit_code, requests>>

\* 2. Initialize Services
MainInitServices ==
    /\ pc = "init_services"
    /\ db_service' = "configured"
    /\ node_registry' = "registered"
    /\ engine' = WorkflowEngine_new
    /\ pc' = "connect"
    /\ UNCHANGED <<cfg, exit_code, requests>>

\* 3. Connect to Database: the await of connect and the match on its result
MainConnect ==
    /\ pc = "connect"
    /\ IF connect = "Ok"
       THEN /\ db_service' = "connected"
            /\ pc' = "start_worker"
            /\ UNCHANGED exit_code
       ELSE /\ pc' = "exited"
            /\ exit_code' = "exit1"
            /\ UNCHANGED db_service
    /\ UNCHANGED <<cfg, node_registry, engine, requests>>

\* 4. Start Engine Worker
MainStartWorker ==
    /\ pc = "start_worker"
    /\ engine' = start_worker(engine)
    /\ pc' = "bind"
    /\ UNCHANGED <<cfg, db_service, node_registry, exit_code, requests>>

\* 5. HttpServer::new(..).bind(("127.0.0.1", cfg.port))? succeeds: .run()
MainBindOk ==
    /\ pc = "bind"
    /\ pc' = "serving"
    /\ UNCHANGED <<cfg, db_service, node_registry, engine, exit_code, requests>>

\* 5. bind fails (the port is taken): `?` returns the io::Error from main
MainBindErr ==
    /\ pc = "bind"
    /\ pc' = "exited"
    /\ exit_code' = "io_error"
    /\ UNCHANGED <<cfg, db_service, node_registry, engine, requests>>

(* ------------------------------ requests ------------------------------- *)

\* the server accepts a request and routes it
Receive ==
    /\ pc = "serving"
    /\ Len(requests) < MaxRequests
    /\ \E route \in Routes :
         IF route = "POST /webhook/{workflowId}"
         THEN \E w \in Workflows, b \in Bodies :
                requests' = Append(requests,
                    [route |-> route, workflow_id |-> w, body |-> b,
                     phase |-> "received", result |-> NoValue, response |-> NoValue])
         ELSE requests' = Append(requests,
                    [route |-> route, workflow_id |-> "", body |-> <<>>,
                     phase |-> "received", result |-> NoValue, response |-> NoValue])
    /\ UNCHANGED <<pc, cfg, db_service, node_registry, engine, exit_code>>

\* GET /api/v1/status
StatusCheck ==
    /\ \E i \in 1..Len(requests) :
         /\ requests[i].route = "GET /api/v1/status"
         /\ requests[i].phase = "received"
         /\ requests' = [requests EXCEPT ![i].phase = "responded",
                                         ![i].response = status_check]
    /\ UNCHANGED <<pc, cfg, db_service, node_registry, engine, exit_code>>

\* GET /api/v1/workflows
WorkflowsList ==
    /\ \E i \in 1..Len(requests) :
         /\ requests[i].route = "GET /api/v1/workflows"
         /\ requests[i].phase = "received"
         /\ requests' = [requests EXCEPT ![i].phase = "responded",
                                         ![i].response = workflows_list]
    /\ UNCHANGED <<pc, cfg, db_service, node_registry, engine, exit_code>>

\* webhook_trigger up to the await inside trigger_workflow: the workflow is
\* being executed (the 50 ms sleep stands for the run)
WebhookTrigger ==
    /\ \E i \in 1..Len(requests) :
         /\ requests[i].route = "POST /webhook/{workflowId}"
         /\ requests[i].phase = "received"
         /\ requests' = [requests EXCEPT ![i].phase = "executing"]
    /\ UNCHANGED <<pc, cfg, db_service, node_registry, engine, exit_code>>

\* the sleep is over: trigger_workflow returns its result to the handler
TriggerReturn ==
    /\ \E i \in 1..Len(requests) :
         /\ requests[i].phase = "executing"
         /\ \E u \in new_v4(requests) :
              requests' = [requests EXCEPT
                  ![i].phase = "returned",
                  ![i].result = trigger_workflow(requests[i].workflow_id,
                                                 requests[i].body, u)]
    /\ UNCHANGED <<pc, cfg, db_service, node_registry, engine, exit_code>>

\* webhook_trigger builds the response from the result
WebhookRespond ==
    /\ \E i \in 1..Len(requests) :
         /\ requests[i].phase = "returned"
         /\ requests' = [requests EXCEPT
                  ![i].phase = "responded",
                  ![i].response = webhook_response(requests[i].result)]
    /\ UNCHANGED <<pc, cfg, db_service, node_registry, engine, exit_code>>

Next ==
    \/ MainLoad
    \/ MainInitServices
    \/ MainConnect
    \/ MainStartWorker
    \/ MainBindOk
    \/ MainBindErr
    \/ Receive
    \/ StatusCheck
    \/ WorkflowsList
    \/ WebhookTrigger
    \/ TriggerReturn
    \/ WebhookRespond

Spec == Init /\ [][Next]_vars

(* ------------------------------ properties ----------------------------- *)

Webhooks == {i \in 1..Len(requests) : requests[i].route = "POST /webhook/{workflowId}"}

Returned == {i \in Webhooks : requests[i].result # NoValue}

Responded == {i \in Webhooks : requests[i].response # NoValue}

TypeOK ==
    /\ pc \in {"load", "init_services", "connect", "start_worker", "bind",
               "serving", "exited"}
    /\ exit_code \in {"running", "exit1", "io_error"}
    /\ Len(requests) <= MaxRequests
    /\ \A i \in 1..Len(requests) :
         requests[i].phase \in {"received", "executing", "returned", "responded"}

\* C1: every trigger invocation that returned has one execution id of its
\* own: it differs from the id of every other invocation, also of one with
\* the same workflowId and an identical body (no deduplication), and the
\* response carries exactly that id.
C1_NewExecutionPerTrigger ==
    /\ \A i, j \in Returned :
         i # j => requests[i].result.value # requests[j].result.value
    /\ \A i \in Responded :
         requests[i].response.body.executionId = requests[i].result.value

\* two answered triggers of the same workflow with the same body, two ids
C1_Witness ==
    \E i, j \in Responded :
        /\ i < j
        /\ requests[i].workflow_id = requests[j].workflow_id
        /\ requests[i].body = requests[j].body
        /\ requests[i].response.body.executionId
             # requests[j].response.body.executionId

\* C2: fire-and-acknowledge: the response to a trigger is produced before
\* the run it started has finished, so a run that has finished belongs to a
\* trigger that has already been answered.
C2_FireAndAcknowledge ==
    \A i \in Returned : requests[i].response # NoValue

\* C3: an execution id is returned only for a known workflow; a trigger for
\* an unknown workflowId gets 404 and no execution id.
C3_UnknownWorkflowRejected ==
    \A i \in Responded :
        IF requests[i].workflow_id \in KnownWorkflows
        THEN requests[i].response.status = 200
        ELSE requests[i].response.status = 404

StartupDone ==
    /\ pc = "serving"
    /\ node_registry = "registered"
    /\ db_service = "connected"
    /\ engine # NoValue
    /\ engine.is_running

\* C10: a request is received, and a trigger handled, only after the node
\* registry is populated, the database is connected and start_worker has
\* set is_running; a process that exited has handled no request; and once
\* is_running is true the engine is never changed again.
C10_StartupOrdering ==
    /\ [](requests # <<>> => StartupDone)
    /\ [](exit_code # "running" => requests = <<>>)
    /\ [][(engine # NoValue /\ engine.is_running) => engine' = engine]_vars

\* every request has been received and answered by a running engine
C10_Witness ==
    /\ Len(requests) = MaxRequests
    /\ \A i \in 1..Len(requests) : requests[i].phase = "responded"
    /\ Webhooks # {}
    /\ engine.is_running

====
